---- MODULE Spec2Model ----
(***************************************************************************)
(* Model of app.py, the NSE Stock Analyzer script.  One run of the script  *)
(* is one request: read the symbol, fetch the six-month frame, clean it,   *)
(* derive the columns, classify, plot, show the table; any exception in    *)
(* the try block ends the run in the except handler.                       *)
(*                                                                         *)
(* Numbers.  A cell of a numeric column is a record [k, v]: k = "fin" with *)
(* v the value in hundredths (two decimals), k = "nan" (numpy NaN, the     *)
(* "unknown" of the specification) or k = "inf" (numpy +inf).  All inputs  *)
(* are non-negative, so -inf never arises.  Raw text cells carry their     *)
(* value in thousandths, so that .round(2) is a real rounding step.        *)
(***************************************************************************)
EXTENDS Integers, Sequences, FiniteSets, TLC

VARIABLES pc, NAME, raw, df, df_plot, out, fetchCalls, raised

vars == <<pc, NAME, raw, df, df_plot, out, fetchCalls, raised>>

----------------------------------------------------------------------------
(* Bounds of the model *)

MaxLen == 3
LongExtra == 1

(* Program constants *)

HEAD_ROWS == 50
EMA_SPAN == 30

(* EMA values are kept in units of 1/EmaScale of a hundredth *)
EmaScale == 1000

----------------------------------------------------------------------------
(* numpy values *)

NaN == [k |-> "nan", v |-> 0]
Inf == [k |-> "inf", v |-> 0]
Fin(n) == [k |-> "fin", v |-> n]

IsNaN(x) == x.k = "nan"
IsFin(x) == x.k = "fin"

(* round-half-to-even of n / d, d > 0 (numpy's rounding rule) *)
RoundDiv(n, d) ==
  LET q == n \div d
      r == n % d
  IN  IF 2 * r < d THEN q
      ELSE IF 2 * r > d THEN q + 1
      ELSE IF q % 2 = 0 THEN q ELSE q + 1

(* a < b on numpy floats: any comparison with NaN is False *)
Lt(a, b) ==
  /\ a.k # "nan"
  /\ b.k # "nan"
  /\ \/ (a.k = "fin" /\ b.k = "fin" /\ a.v < b.v)
     \/ (a.k = "fin" /\ b.k = "inf")

Gt(a, b) == Lt(b, a)

(* Series.div(...).round(2) of two non-negative columns, cell by cell:     *)
(* x/0 is +inf for x > 0 and NaN for x = 0, it never raises                *)
DivRound(x, y) ==
  IF IsNaN(x) \/ IsNaN(y) THEN NaN
  ELSE IF y.v = 0 THEN (IF x.v = 0 THEN NaN ELSE Inf)
  ELSE Fin(RoundDiv(100 * x.v, y.v))

(* ((x - base) / base * 100).round(2), cell by cell *)
PctOf(x, base) ==
  IF IsNaN(x) \/ IsNaN(base) THEN NaN
  ELSE IF base.k = "inf" THEN NaN
  ELSE IF x.k = "inf" THEN Inf
  ELSE IF base.v = 0 THEN (IF x.v = base.v THEN NaN ELSE Inf)
  ELSE Fin(RoundDiv(10000 * (x.v - base.v), base.v))

----------------------------------------------------------------------------
(* Sequence helpers *)

Reverse(s) == [i \in 1..Len(s) |-> s[Len(s) + 1 - i]]

RECURSIVE SumKnown(_, _)
SumKnown(col, i) ==
  IF i = 0 THEN 0
  ELSE SumKnown(col, i - 1) + (IF IsFin(col[i]) THEN col[i].v ELSE 0)

CountKnown(col) == Cardinality({i \in 1..Len(col) : ~IsNaN(col[i])})

(* Series.mean(skipna=True): with no known value pandas returns the plain  *)
(* Python float nan (tag "pyfloat"), otherwise a numpy float64             *)
SeriesMean(col) ==
  IF CountKnown(col) = 0 THEN [k |-> "pyfloat", v |-> 0]
  ELSE IF \E i \in 1..Len(col) : col[i].k = "inf" THEN Inf
  ELSE [k |-> "mean", v |-> SumKnown(col, Len(col)), n |-> CountKnown(col)]

(* <scalar>.round(2): numpy.float64 has the method, a Python float has not *)
RoundRaises(m) == m.k = "pyfloat"

ScalarRound(m) ==
  IF m.k = "mean" THEN Fin(RoundDiv(m.v, m.n)) ELSE Inf

(* Series.shift(periods): periods = 1 moves every value one row down,      *)
(* periods = -1 one row up; the vacated row is NaN                         *)
Shift(col, periods) ==
  [i \in 1..Len(col) |->
     IF i - periods >= 1 /\ i - periods <= Len(col) THEN col[i - periods] ELSE NaN]

(* DataFrame.head(n) *)
HeadMutTail(s, n) ==
  IF Len(s) <= n THEN s ELSE [i \in 1..n |-> s[Len(s) - n + i]]

head(s, n) ==
  IF Len(s) <= n THEN s ELSE [i \in 1..n |-> s[i]]

----------------------------------------------------------------------------
(* The data provider: rows in chronological order with a RangeIndex.       *)
(* A raw cell is text: "num" (plain number, value m in thousandths),       *)
(* "comma" (the same with thousands separators), "dash" (the '-'           *)
(* placeholder) or "text" (anything else).                                 *)

Num(m) == [t |-> "num", m |-> m]
Comma(m) == [t |-> "comma", m |-> m]
Dash == [t |-> "dash", m |-> 0]
Text == [t |-> "text", m |-> 0]

Pool ==
  { [c |-> Num(100000), q |-> Comma(1000000), n |-> Num(10000), d |-> Num(60000), dateOk |-> TRUE],
    [c |-> Num(102000), q |-> Num(800000),    n |-> Num(10000), d |-> Num(60000), dateOk |-> TRUE],
    [c |-> Num(99000),  q |-> Num(900000),    n |-> Num(10000), d |-> Num(50000), dateOk |-> TRUE],
    [c |-> Num(105000), q |-> Num(1000000),   n |-> Num(0),     d |-> Num(40000), dateOk |-> TRUE],
    [c |-> Dash,        q |-> Dash,           n |-> Dash,       d |-> Dash,       dateOk |-> FALSE],
    [c |-> Num(100456), q |-> Num(1000000),   n |-> Num(3000),  d |-> Text,       dateOk |-> FALSE] }

Pattern ==
  << [c |-> Num(100000), q |-> Comma(1000000), n |-> Num(10000), d |-> Num(60000), dateOk |-> TRUE],
     [c |-> Num(102000), q |-> Num(800000),    n |-> Num(10000), d |-> Num(60000), dateOk |-> TRUE],
     [c |-> Num(99000),  q |-> Num(900000),    n |-> Num(10000), d |-> Num(50000), dateOk |-> TRUE],
     [c |-> Num(105000), q |-> Num(1200000),   n |-> Num(10000), d |-> Num(40000), dateOk |-> TRUE] >>

SmallBatches == UNION { [1..n -> Pool] : n \in 0..MaxLen }

LongBatches ==
  { [j \in 1..L |-> Pattern[((j + o) % Len(Pattern)) + 1]] :
      L \in (HEAD_ROWS - 1)..(HEAD_ROWS + LongExtra), o \in 0..1 }

(* closes 105, 99, 102, 100 oldest first, i.e. 100, 102, 99, 105 newest first *)
ExampleBatch == [j \in 1..4 |-> Pattern[5 - j]]

(* the four pattern rows and a day with unknown trades whose delivery     *)
(* percentage is exactly the batch average                                 *)
MixedBatch ==
  Pattern \o << [c |-> Num(101000), q |-> Dash, n |-> Dash, d |-> Num(52500), dateOk |-> TRUE] >>

Batches == SmallBatches \cup LongBatches \cup {ExampleBatch, MixedBatch}

ProviderErrors == {"ConnectionError", "SymbolNotFound"}

Symbols == {"", "TCS", "INFY"}

(* the frame the provider returns for a batch: row j carries index j and   *)
(* the date of day j (text that parses, or text that does not)             *)
ProviderFrame(sym, b) ==
  [j \in 1..Len(b) |->
     [idx |-> j, Symbol |-> sym,
      Date |-> [ok |-> b[j].dateOk, day |-> j],
      ClosePrice |-> b[j].c, TotalTradedQuantity |-> b[j].q,
      NoOfTrades |-> b[j].n, PctDlyQt |-> b[j].d]]

(* df.sort_index(ascending=False) on a RangeIndex *)
SortIndexDesc(f) == Reverse(f)

----------------------------------------------------------------------------
(* Clean & convert, one cell *)

(* df.replace('-', np.nan) *)
ReplaceDash(cell) == IF cell.t = "dash" THEN [t |-> "nan", m |-> 0] ELSE cell

(* .replace(",", "", regex=True) *)
StripCommas(cell) == IF cell.t = "comma" THEN [t |-> "num", m |-> cell.m] ELSE cell

(* pd.to_numeric(errors='coerce') followed by .round(2) *)
ToNumericRound(cell) ==
  IF cell.t = "num" THEN Fin(RoundDiv(cell.m, 10)) ELSE NaN

Clean(cell) == ToNumericRound(StripCommas(ReplaceDash(cell)))

Col(f, name) == [i \in 1..Len(f) |-> f[i][name]]

----------------------------------------------------------------------------
(* Derived columns (lines 40-47) *)

ActionCol(f) ==
  [i \in 1..Len(f) |-> DivRound(Clean(f[i].TotalTradedQuantity), Clean(f[i].NoOfTrades))]

DlyCol(f) == [i \in 1..Len(f) |-> Clean(f[i].PctDlyQt)]

CloseCol(f) == [i \in 1..Len(f) |-> Clean(f[i].ClosePrice)]

(* df['SHIFT'] = df['ClosePrice'].shift(1) *)
ShiftColMut(close) == Shift(close, -1)

ShiftCol(close) == Shift(close, 1)

(* df['%iCHANGE'] = ((SHIFT - ClosePrice) / ClosePrice * 100).round(2) *)
IChangeCol(close) ==
  [i \in 1..Len(close) |-> PctOf(ShiftCol(close)[i], close[i])]

(* df['%CHANGE'] = df['%iCHANGE'].shift(-1).round(2) *)
ChangeColMut(ich) == Shift(ich, 1)

ChangeCol(ich) == Shift(ich, -1)

----------------------------------------------------------------------------
(* Remarks logic (lines 50-57) *)

conditions(d, avgD, a, avgA) ==
  << Gt(d, avgD) /\ Lt(a, avgA),
     Lt(d, avgD) /\ Gt(a, avgA),
     Gt(d, avgD) /\ Gt(a, avgA),
     Lt(d, avgD) /\ Lt(a, avgA) >>

remarksMut == << "ACC(G-LZ)", "JACKPOT", "BR(G-HZ)", "NA" >>

remarks == << "ACC(G-LZ)", "BR(G-HZ)", "JACKPOT", "NA" >>

(* np.select(condlist, choicelist, default): the first condition that holds *)
NpSelect(condlist, choicelist, default) ==
  IF \E j \in 1..Len(condlist) : condlist[j]
  THEN choicelist[CHOOSE j \in 1..Len(condlist) :
                    condlist[j] /\ \A h \in 1..(j - 1) : ~condlist[h]]
  ELSE default

(* the whole frame after lines 34-57, when no line raises *)
Enriched(f) ==
  LET close == CloseCol(f)
      act   == ActionCol(f)
      dly   == DlyCol(f)
      avgA  == ScalarRound(SeriesMean(act))
      avgD  == ScalarRound(SeriesMean(dly))
      ich   == IChangeCol(close)
      chg   == ChangeCol(ich)
      shf   == ShiftCol(close)
  IN  [i \in 1..Len(f) |->
        [idx |-> f[i].idx, Symbol |-> f[i].Symbol, Date |-> f[i].Date,
         ClosePrice |-> close[i],
         TotalTradedQuantity |-> Clean(f[i].TotalTradedQuantity),
         NoOfTrades |-> Clean(f[i].NoOfTrades),
         PctDlyQt |-> dly[i],
         Action |-> act[i], avgACTION |-> avgA, avgPctDEL |-> avgD,
         pctChngACT |-> PctOf(act[i], avgA),
         pctChngDEL |-> PctOf(dly[i], avgD),
         SHIFT |-> shf[i], pctICHANGE |-> ich[i], pctCHANGE |-> chg[i],
         REMARKS |-> NpSelect(conditions(dly[i], avgD, act[i], avgA), remarks, "NA")]]

(* line 41 or line 42 raises AttributeError: 'float' object has no attribute 'round' *)
ComputeRaises(f) ==
  \/ RoundRaises(SeriesMean(ActionCol(f)))
  \/ RoundRaises(SeriesMean(DlyCol(f)))

----------------------------------------------------------------------------
(* Plot section (lines 60-78) *)

(* df.dropna(subset=['ClosePrice']) keeps the row order of df *)
DropNaClose(f) == SelectSeq(f, LAMBDA r : ~IsNaN(r.ClosePrice))

(* pd.to_datetime(..., errors='coerce'): unparseable text becomes NaT (day 0) *)
ToDatetime(date) == IF date.ok THEN date.day ELSE 0

(* Series.ewm(span=30, adjust=False).mean() over the rows in frame order:  *)
(* y[1] = x[1], y[i] = alpha*x[i] + (1-alpha)*y[i-1], alpha = 2/(span+1)   *)
RECURSIVE EwmSeq(_, _)
EwmSeq(close, i) ==
  IF i = 0 THEN << >>
  ELSE LET prev == EwmSeq(close, i - 1)
       IN  Append(prev,
                  IF i = 1 THEN close[1].v * EmaScale
                  ELSE RoundDiv(2 * close[i].v * EmaScale + (EMA_SPAN - 1) * prev[i - 1],
                                EMA_SPAN + 1))

PlotFrame(f) ==
  LET p   == DropNaClose(f)
      ema == EwmSeq(Col(p, "ClosePrice"), Len(p))
  IN  [i \in 1..Len(p) |->
        [idx |-> p[i].idx, Date |-> ToDatetime(p[i].Date),
         ClosePrice |-> p[i].ClosePrice, EMA30 |-> ema[i], REMARKS |-> p[i].REMARKS]]

colors == << "JACKPOT", "ACC(G-LZ)", "BR(G-HZ)" >>

(* the series handed to matplotlib: two lines and one scatter per label *)
ChartSeries(p) ==
  [close   |-> [i \in 1..Len(p) |-> << p[i].Date, p[i].ClosePrice.v >>],
   ema     |-> [i \in 1..Len(p) |-> << p[i].Date, p[i].EMA30 >>],
   scatter |-> [j \in 1..Len(colors) |->
                  LET t == SelectSeq(p, LAMBDA r : r.REMARKS = colors[j])
                  IN  [i \in 1..Len(t) |-> << t[i].Date, t[i].ClosePrice.v >>]]]

----------------------------------------------------------------------------
(* Data table (lines 81-83) *)

Project(r) ==
  [Symbol |-> r.Symbol, Date |-> r.Date, pctChngACT |-> r.pctChngACT,
   pctChngDEL |-> r.pctChngDEL, REMARKS |-> r.REMARKS, ClosePrice |-> r.ClosePrice,
   pctCHANGE |-> r.pctCHANGE, PctDlyQt |-> r.PctDlyQt]

DisplayFrame(f) == head([i \in 1..Len(f) |-> Project(f[i])], HEAD_ROWS)

----------------------------------------------------------------------------
(* The script *)

(* except Exception as e: st.error(f"... Error fetching data: {e}") *)
ExceptHandlerMut(o, e) == o

ExceptHandler(o, e) == Append(o, [kind |-> "error", text |-> "Error fetching data: ", e |-> e])

(* where the run raised, and what *)
NotRaised == [at |-> "none", e |-> "none"]

Init ==
  /\ pc = "input"
  /\ NAME = ""
  /\ raw = << >>
  /\ df = << >>
  /\ df_plot = << >>
  /\ out = << >>
  /\ fetchCalls = 0
  /\ raised = NotRaised

(* line 25: the user submits a symbol; line 27: a non-empty one enters the try *)
Submit ==
  /\ pc = "input"
  /\ \E s \in Symbols \ {""} :
       /\ NAME' = s
       /\ pc' = "fetch"
  /\ UNCHANGED <<raw, df, df_plot, out, fetchCalls, raised>>

(* lines 87-88: the empty input *)
SubmitEmpty ==
  /\ pc = "input"
  /\ NAME' = ""
  /\ out' = Append(out, [kind |-> "info", text |-> "Please enter a valid NSE stock symbol to begin.", e |-> "none"])
  /\ pc' = "done"
  /\ UNCHANGED <<raw, df, df_plot, fetchCalls, raised>>

(* lines 30-31: the provider returns a frame, which is sorted newest first *)
FetchOk ==
  /\ pc = "fetch"
  /\ \E b \in Batches :
       raw' = SortIndexDesc(ProviderFrame(NAME, b))
  /\ fetchCalls' = fetchCalls + 1
  /\ pc' = "compute"
  /\ UNCHANGED <<NAME, df, df_plot, out, raised>>

(* line 30: the provider raises; control goes to the except clause *)
FetchRaise ==
  /\ pc = "fetch"
  /\ \E e \in ProviderErrors :
       /\ out' = ExceptHandler(out, e)
       /\ raised' = [at |-> "fetch", e |-> e]
  /\ fetchCalls' = fetchCalls + 1
  /\ pc' = "done"
  /\ UNCHANGED <<NAME, raw, df, df_plot>>

(* lines 34-57 *)
Compute ==
  /\ pc = "compute"
  /\ ~ComputeRaises(raw)
  /\ df' = Enriched(raw)
  /\ pc' = "plot"
  /\ UNCHANGED <<NAME, raw, df_plot, out, fetchCalls, raised>>

(* lines 41-42 raise; control goes to the except clause *)
ComputeRaise ==
  /\ pc = "compute"
  /\ ComputeRaises(raw)
  /\ out' = ExceptHandler(out, "AttributeError")
  /\ raised' = [at |-> "compute", e |-> "AttributeError"]
  /\ pc' = "done"
  /\ UNCHANGED <<NAME, raw, df, df_plot, fetchCalls>>

(* lines 60-78 *)
Plot ==
  /\ pc = "plot"
  /\ df_plot' = PlotFrame(df)
  /\ out' = Append(out, [kind |-> "chart", series |-> ChartSeries(PlotFrame(df))])
  /\ pc' = "table"
  /\ UNCHANGED <<NAME, raw, df, fetchCalls, raised>>

(* lines 81-83 *)
Table ==
  /\ pc = "table"
  /\ out' = Append(out, [kind |-> "table", rows |-> DisplayFrame(df)])
  /\ pc' = "done"
  /\ UNCHANGED <<NAME, raw, df, df_plot, fetchCalls, raised>>

(* streamlit reruns the script from the top for the next input *)
Rerun ==
  /\ pc = "done"
  /\ pc' = "input"
  /\ NAME' = ""
  /\ raw' = << >>
  /\ df' = << >>
  /\ df_plot' = << >>
  /\ out' = << >>
  /\ fetchCalls' = 0
  /\ raised' = NotRaised

Next ==
  \/ Submit
  \/ SubmitEmpty
  \/ FetchOk
  \/ FetchRaise
  \/ Compute
  \/ ComputeRaise
  \/ Plot
  \/ Table
  \/ Rerun

Spec == Init /\ [][Next]_vars

----------------------------------------------------------------------------
(* Properties *)

Computed == pc \in {"plot", "table", "done"} /\ raised.at = "none" /\ fetchCalls = 1

OutKinds == [j \in 1..Len(out) |-> out[j].kind]

Known(x) == x.k # "nan"

(* x is strictly above y, both known *)
Above(x, y) ==
  /\ Known(x) /\ Known(y)
  /\ \/ (x.k = "fin" /\ y.k = "fin" /\ x.v > y.v)
     \/ (x.k = "inf" /\ y.k = "fin")

RuleRemark(d, avgD, a, avgA) ==
  IF Above(d, avgD) /\ Above(avgA, a) THEN "ACC(G-LZ)"
  ELSE IF Above(avgD, d) /\ Above(a, avgA) THEN "BR(G-HZ)"
  ELSE IF Above(d, avgD) /\ Above(a, avgA) THEN "JACKPOT"
  ELSE "NA"

(* C1: every record of a classified batch carries exactly one remark of    *)
(* the four, the first match of the priority rule ACC, BR, JACKPOT; an     *)
(* unknown operand, or delivery% or action equal to its average, gives NA  *)
C1_RemarkFirstMatch ==
  Computed =>
    \A i \in 1..Len(df) :
      LET r == df[i] IN
      /\ r.REMARKS \in {"JACKPOT", "ACC(G-LZ)", "BR(G-HZ)", "NA"}
      /\ r.REMARKS = RuleRemark(r.PctDlyQt, r.avgPctDEL, r.Action, r.avgACTION)
      /\ (~Known(r.PctDlyQt) \/ ~Known(r.Action)) => r.REMARKS = "NA"
      /\ (r.PctDlyQt = r.avgPctDEL \/ r.Action = r.avgACTION) => r.REMARKS = "NA"

C1_Witness ==
  /\ Computed
  /\ \A lab \in {"JACKPOT", "ACC(G-LZ)", "BR(G-HZ)", "NA"} :
       \E i \in 1..Len(df) : df[i].REMARKS = lab
  /\ \E i \in 1..Len(df) : df[i].PctDlyQt = df[i].avgPctDEL

(* C2: action is unknown whenever number_of_trades is 0 or unknown, and    *)
(* otherwise is total_traded_quantity / number_of_trades rounded to two    *)
(* decimals; a zero divisor never yields a known (finite or infinite) value *)
C2_ActionUnknownOnZeroTrades ==
  Computed =>
    \A i \in 1..Len(df) :
      LET r == df[i] IN
      IF ~Known(r.NoOfTrades) \/ r.NoOfTrades.v = 0
      THEN r.Action = NaN
      ELSE Known(r.TotalTradedQuantity) =>
             r.Action = Fin(RoundDiv(100 * r.TotalTradedQuantity.v, r.NoOfTrades.v))

(* the action values the averages are to be taken over: records with zero  *)
(* or unknown trades do not contribute                                     *)
ContributingActions ==
  [i \in 1..Len(df) |->
     IF Known(df[i].NoOfTrades) /\ df[i].NoOfTrades.v # 0 /\ Known(df[i].TotalTradedQuantity)
     THEN Fin(RoundDiv(100 * df[i].TotalTradedQuantity.v, df[i].NoOfTrades.v))
     ELSE NaN]

(* C3: every record of a batch carries the same avg_action and the same    *)
(* avg_delivery, the rounded means of the known values of the whole batch; *)
(* records with unknown values or zero trades do not contribute            *)
C3_BatchWideAverages ==
  Computed =>
    LET acts == ContributingActions
        dels == [i \in 1..Len(df) |-> df[i].PctDlyQt]
    IN  \A i \in 1..Len(df) :
          /\ CountKnown(acts) > 0 =>
               df[i].avgACTION = Fin(RoundDiv(SumKnown(acts, Len(acts)), CountKnown(acts)))
          /\ CountKnown(dels) > 0 =>
               df[i].avgPctDEL = Fin(RoundDiv(SumKnown(dels, Len(dels)), CountKnown(dels)))

ExampleCloses == << Fin(10000), Fin(10200), Fin(9900), Fin(10500) >>

InverseChangeFormula(r) ==
  (IsFin(r.SHIFT) /\ IsFin(r.ClosePrice) /\ r.ClosePrice.v > 0) =>
     r.pctICHANGE = Fin(RoundDiv(10000 * (r.SHIFT.v - r.ClosePrice.v), r.ClosePrice.v))

Min(a, b) == IF a <= b THEN a ELSE b

(* C6: the report is exactly the first min(50, batch size) records of the  *)
(* enriched sequence, in the same order, each row carrying the values of   *)
(* the record it was taken from                                            *)
C6_ReportIsFirstFifty ==
  \A j \in 1..Len(out) :
    out[j].kind = "table" =>
      LET rows == out[j].rows IN
      /\ Len(rows) = Min(50, Len(df))
      /\ Len(rows) <= Min(50, Len(raw))
      /\ \A i \in 1..Len(rows) :
           /\ rows[i].Symbol = df[i].Symbol
           /\ rows[i].Date = df[i].Date
           /\ rows[i].pctChngACT = df[i].pctChngACT
           /\ rows[i].pctChngDEL = df[i].pctChngDEL
           /\ rows[i].REMARKS = df[i].REMARKS
           /\ rows[i].ClosePrice = df[i].ClosePrice
           /\ rows[i].pctCHANGE = df[i].pctCHANGE
           /\ rows[i].PctDlyQt = df[i].PctDlyQt
           /\ i > 1 => df[i - 1].idx > df[i].idx

C6_Witness ==
  /\ pc = "done"
  /\ Len(df) > 50
  /\ \E j \in 1..Len(out) : out[j].kind = "table" /\ Len(out[j].rows) = 50

(* C7: the EMA runs over the plotted records in ascending date order,      *)
(* records without a parseable date or a close excluded: the oldest        *)
(* plotted record's EMA is its close and every later one is                *)
(* close*alpha + previous EMA*(1-alpha), alpha = 2/31                      *)
C7_EmaAscendingByDate ==
  pc \in {"table", "done"} /\ raised.at = "none" /\ fetchCalls = 1 =>
    \A i \in 1..Len(df_plot) :
      /\ df_plot[i].Date # 0
      /\ Known(df_plot[i].ClosePrice)
      /\ i = 1 => df_plot[i].EMA30 = df_plot[i].ClosePrice.v * EmaScale
      /\ i > 1 =>
           /\ df_plot[i - 1].Date < df_plot[i].Date
           /\ df_plot[i].EMA30 =
                RoundDiv(2 * df_plot[i].ClosePrice.v * EmaScale + 29 * df_plot[i - 1].EMA30, 31)

(* C8: when the provider raises, an error message carrying the provider's  *)
(* error is shown, no chart and no table are output, and the provider was  *)
(* called exactly once                                                     *)
C8_ProviderErrorSurfaced ==
  (pc = "done" /\ raised.at = "fetch") =>
    /\ Len(out) = 1
    /\ out[1].kind = "error"
    /\ out[1].e = raised.e
    /\ out[1].e \in ProviderErrors
    /\ fetchCalls = 1

C8_Witness ==
  /\ pc = "done"
  /\ raised.at = "fetch"
  /\ raised.e = "SymbolNotFound"
  /\ OutKinds = << "error" >>

(* the provider returned a frame with zero rows *)
EmptyBatchFetched == fetchCalls = 1 /\ raised.at # "fetch" /\ raw = << >>

(* C9: an empty batch ends in a 'no data' state: no error message, a       *)
(* report of 0 rows and empty chart series                                 *)
C9_EmptyBatchNoData ==
  (pc = "done" /\ EmptyBatchFetched) =>
    /\ \A j \in 1..Len(out) : out[j].kind # "error"
    /\ \A j \in 1..Len(out) : out[j].kind = "table" => out[j].rows = << >>
    /\ \A j \in 1..Len(out) : out[j].kind = "chart" => out[j].series.close = << >>

(* C10: a request with a non-empty symbol ends either with chart and table *)
(* both output and no error, or with a failure at the fetch step, an error *)
(* message and neither chart nor table                                     *)
C10_AllOrNothingAtFetch ==
  (pc = "done" /\ NAME # "") =>
    \/ (OutKinds = << "chart", "table" >> /\ raised.at = "none")
    \/ (OutKinds = << "error" >> /\ raised.at = "fetch")

====
